---- MODULE Spec2Model ----
(***************************************************************************)
(* Model of fuser_method_mappings.py: the two default fusion tables, the   *)
(* two lookup functions and the fusion functions the tables register.      *)
(*                                                                         *)
(* Python values are encoded as follows.                                   *)
(*  - A layer type (nn.Conv1d, ...) is its class name, a string.           *)
(*  - An op list (A, B) or (A, B, C) is the tuple of the names.            *)
(*  - A nested pattern (X, W) is <<X, w>> with w = <<W>> when W is a type  *)
(*    and w = <<Y, Z>> when W is the pair (Y, Z).                          *)
(*  - A function value is a record [kind, arg, id]: kind is the name of    *)
(*    the def (or of the def that built the closure), arg the closure's    *)
(*    captured argument, id the number of a caller-supplied function.      *)
(*    Python's None stored as a dictionary value is NoneValue.             *)
(*  - A dict is a TLA+ function from keys to function values.              *)
(*  - An optional dict argument is [none, dict]: none = TRUE is None.      *)
(*  - A module instance is a record of its type and of the attributes      *)
(*    the code reads; an attribute the type does not have is 0.            *)
(*  - The outcome of a call is a record [ok, err, ...]: a return value or  *)
(*    the class of the exception raised.                                   *)
(***************************************************************************)
EXTENDS Integers, Sequences, FiniteSets, TLC

VARIABLES
    DEFAULT_OP_LIST_TO_FUSER_METHOD,  \* the module-level dict of line 153
    DEFAULT_PATTERN_TO_FUSER_METHOD,  \* the module-level dict of line 205
    call,                             \* the last lookup: arguments, outcome
    fusion                            \* the last fusion call: arguments, outcome

vars == <<DEFAULT_OP_LIST_TO_FUSER_METHOD, DEFAULT_PATTERN_TO_FUSER_METHOD,
          call, fusion>>

(***************************************************************************)
(* Bounds.                                                                 *)
(***************************************************************************)
\* Number of distinct caller-supplied fusion functions.
NumUserFns == 2
\* Channel counts (out_channels, out_features, num_features) range over 1..MaxChannels.
MaxChannels == 2

(***************************************************************************)
(* Layer types.                                                            *)
(***************************************************************************)
ConvTypes == {"Conv1d", "Conv2d", "Conv3d"}
ConvTransposeTypes == {"ConvTranspose1d", "ConvTranspose2d", "ConvTranspose3d"}
BatchNormTypes == {"BatchNorm1d", "BatchNorm2d", "BatchNorm3d"}
\* nn.ReLU6 is an activation that is not nn.ReLU: no table names it.
ActivationTypes == {"ReLU", "ReLU6"}

(***************************************************************************)
(* Function values.                                                        *)
(***************************************************************************)
Fn(kind, arg) == [kind |-> kind, arg |-> arg, id |-> 0]
UserFn(i) == [kind |-> "user", arg |-> "-", id |-> i]
NoneValue == [kind |-> "None", arg |-> "-", id |-> 0]

(***************************************************************************)
(* Dictionaries.                                                           *)
(***************************************************************************)
\* dict()
dict == [k \in {} |-> NoneValue]
\* d.get(key, None)
dict_get(d, key) == IF key \in DOMAIN d THEN d[key] ELSE NoneValue
\* d.update(other): the dict d after the call
dict_update(d, other) ==
    [k \in DOMAIN d \cup DOMAIN other |-> IF k \in DOMAIN other THEN other[k] ELSE d[k]]
\* An optional dict argument.
NoneArg == [none |-> TRUE, dict |-> dict]
DictArg(d) == [none |-> FALSE, dict |-> d]

(***************************************************************************)
(* The default tables, as the module's initialisation builds them.         *)
(***************************************************************************)
OpListTable ==
    (<<"Conv1d", "BatchNorm1d">> :> Fn("fuse_conv_bn", "-")) @@
    (<<"Conv1d", "BatchNorm1d", "ReLU">> :> Fn("fuse_conv_bn_relu", "-")) @@
    (<<"Conv2d", "BatchNorm2d">> :> Fn("fuse_conv_bn", "-")) @@
    (<<"Conv2d", "BatchNorm2d", "ReLU">> :> Fn("fuse_conv_bn_relu", "-")) @@
    (<<"Conv3d", "BatchNorm3d">> :> Fn("fuse_conv_bn", "-")) @@
    (<<"Conv3d", "BatchNorm3d", "ReLU">> :> Fn("fuse_conv_bn_relu", "-")) @@
    (<<"Conv1d", "ReLU">> :> Fn("sequential_wrapper2", "ConvReLU1d")) @@
    (<<"Conv2d", "ReLU">> :> Fn("sequential_wrapper2", "ConvReLU2d")) @@
    (<<"Conv3d", "ReLU">> :> Fn("sequential_wrapper2", "ConvReLU3d")) @@
    (<<"Linear", "BatchNorm1d">> :> Fn("fuse_linear_bn", "-")) @@
    (<<"Linear", "ReLU">> :> Fn("sequential_wrapper2", "LinearReLU")) @@
    (<<"BatchNorm2d", "ReLU">> :> Fn("sequential_wrapper2", "BNReLU2d")) @@
    (<<"BatchNorm3d", "ReLU">> :> Fn("sequential_wrapper2", "BNReLU3d")) @@
    (<<"ConvTranspose1d", "BatchNorm1d">> :> Fn("fuse_convtranspose_bn", "-")) @@
    (<<"ConvTranspose2d", "BatchNorm2d">> :> Fn("fuse_convtranspose_bn", "-")) @@
    (<<"ConvTranspose3d", "BatchNorm3d">> :> Fn("fuse_convtranspose_bn", "-"))

PatternTable ==
    (<<"BatchNorm1d", <<"Conv1d">>>> :> Fn("reverse2", "fuse_conv_bn")) @@
    (<<"ReLU", <<"BatchNorm1d", "Conv1d">>>> :> Fn("reverse3", "fuse_conv_bn_relu")) @@
    (<<"BatchNorm2d", <<"Conv2d">>>> :> Fn("reverse2", "fuse_conv_bn")) @@
    (<<"ReLU", <<"BatchNorm2d", "Conv2d">>>> :> Fn("reverse3", "fuse_conv_bn_relu")) @@
    (<<"BatchNorm3d", <<"Conv3d">>>> :> Fn("reverse2", "fuse_conv_bn")) @@
    (<<"ReLU", <<"BatchNorm3d", "Conv3d">>>> :> Fn("reverse3", "fuse_conv_bn_relu")) @@
    (<<"ReLU", <<"Conv1d">>>> :> Fn("reverse_sequential_wrapper2", "ConvReLU1d")) @@
    (<<"ReLU", <<"Conv2d">>>> :> Fn("reverse_sequential_wrapper2", "ConvReLU2d")) @@
    (<<"ReLU", <<"Conv3d">>>> :> Fn("reverse_sequential_wrapper2", "ConvReLU3d")) @@
    (<<"BatchNorm1d", <<"Linear">>>> :> Fn("reverse2", "fuse_linear_bn")) @@
    (<<"ReLU", <<"Linear">>>> :> Fn("reverse_sequential_wrapper2", "LinearReLU")) @@
    (<<"ReLU", <<"BatchNorm2d">>>> :> Fn("reverse_sequential_wrapper2", "BNReLU2d")) @@
    (<<"ReLU", <<"BatchNorm3d">>>> :> Fn("reverse_sequential_wrapper2", "BNReLU3d")) @@
    (<<"BatchNorm1d", <<"ConvTranspose1d">>>> :> Fn("reverse2", "fuse_convtranspose_bn")) @@
    (<<"BatchNorm2d", <<"ConvTranspose2d">>>> :> Fn("reverse2", "fuse_convtranspose_bn")) @@
    (<<"BatchNorm3d", <<"ConvTranspose3d">>>> :> Fn("reverse2", "fuse_convtranspose_bn"))

(***************************************************************************)
(* Lookups.  Each operator returns the call's outcome together with the    *)
(* dict objects it was handed as they are after the call.                  *)
(***************************************************************************)
Found(f) == [ok |-> TRUE, err |-> "", fn |-> f]
NotFound == [ok |-> FALSE, err |-> "AssertionError", fn |-> NoneValue]

\* torch.ao.quantization.utils.get_combined_dict: copy the default, update
\* the copy with the additional dict, return the copy.
get_combined_dict(default_dict, additional_dict) ==
    LET d == default_dict
    IN  [d |-> dict_update(d, additional_dict),
         default_dict |-> default_dict,
         additional_dict |-> additional_dict]

\* Variant: the default entry wins over the caller's on a key collision.
get_fuser_method_default_wins(op_list, additional_fuser_method_mapping, DEFAULT) ==
    LET additional == IF additional_fuser_method_mapping.none
                      THEN dict
                      ELSE additional_fuser_method_mapping.dict
        fuser_method == dict_get(dict_update(additional, DEFAULT), op_list)
    IN  [ret |-> IF fuser_method # NoneValue THEN Found(fuser_method) ELSE NotFound,
         DEFAULT |-> DEFAULT,
         mapping |-> additional_fuser_method_mapping]

\* Variant: the caller's entries are written into the default table itself.
get_fuser_method_in_place(op_list, additional_fuser_method_mapping, DEFAULT) ==
    LET additional == IF additional_fuser_method_mapping.none
                      THEN dict
                      ELSE additional_fuser_method_mapping.dict
        all_mappings == dict_update(DEFAULT, additional)
        fuser_method == dict_get(all_mappings, op_list)
    IN  [ret |-> IF fuser_method # NoneValue THEN Found(fuser_method) ELSE NotFound,
         DEFAULT |-> all_mappings,
         mapping |-> additional_fuser_method_mapping]

get_fuser_method(op_list, additional_fuser_method_mapping, DEFAULT) ==
    LET additional == IF additional_fuser_method_mapping.none
                      THEN dict
                      ELSE additional_fuser_method_mapping.dict
        combined == get_combined_dict(DEFAULT, additional)
        all_mappings == combined.d
        fuser_method == dict_get(all_mappings, op_list)
    IN  [ret |-> IF fuser_method # NoneValue THEN Found(fuser_method) ELSE NotFound,
         DEFAULT |-> combined.default_dict,
         mapping |-> IF additional_fuser_method_mapping.none
                     THEN NoneArg
                     ELSE DictArg(combined.additional_dict)]

\* Variant: the result of .get is returned without the assertion.
get_fuser_method_new_no_assert(op_pattern, fuser_method_mapping, DEFAULT) ==
    LET mapping == IF fuser_method_mapping.none
                   THEN DEFAULT
                   ELSE fuser_method_mapping.dict
    IN  [ret |-> Found(dict_get(mapping, op_pattern)),
         DEFAULT |-> DEFAULT,
         mapping |-> fuser_method_mapping]

\* Variant: the supplied mapping is merged over the default table.
get_fuser_method_new_merged(op_pattern, fuser_method_mapping, DEFAULT) ==
    LET mapping == IF fuser_method_mapping.none
                   THEN DEFAULT
                   ELSE dict_update(DEFAULT, fuser_method_mapping.dict)
        fuser_method == dict_get(mapping, op_pattern)
    IN  [ret |-> IF fuser_method # NoneValue THEN Found(fuser_method) ELSE NotFound,
         DEFAULT |-> DEFAULT,
         mapping |-> fuser_method_mapping]

get_fuser_method_new(op_pattern, fuser_method_mapping, DEFAULT) ==
    LET mapping == IF fuser_method_mapping.none
                   THEN DEFAULT
                   ELSE fuser_method_mapping.dict
        fuser_method == dict_get(mapping, op_pattern)
    IN  [ret |-> IF fuser_method # NoneValue THEN Found(fuser_method) ELSE NotFound,
         DEFAULT |-> DEFAULT,
         mapping |-> fuser_method_mapping]

(***************************************************************************)
(* The inputs of the lookups.                                              *)
(***************************************************************************)
\* Op lists no default entry names.
UnregisteredOpLists ==
    {<<"ReLU", "Conv1d">>, <<"BatchNorm1d", "ReLU">>,
     <<"Linear", "BatchNorm1d", "ReLU">>, <<"Linear", "Linear">>}
OpLists == DOMAIN OpListTable \cup UnregisteredOpLists

UnregisteredPatterns ==
    {<<"Conv1d", <<"BatchNorm1d">>>>, <<"ReLU", <<"BatchNorm1d">>>>,
     <<"ReLU", <<"BatchNorm1d", "Linear">>>>, <<"Linear", <<"Linear">>>>}
Patterns == DOMAIN PatternTable \cup UnregisteredPatterns

\* What a caller's dict holds under a key: one of the caller's functions.
CallerValues == {UserFn(i) : i \in 1..NumUserFns}
\* The dicts over a key of the default table and a key outside it.
DictsOver(keys) == UNION {[D -> CallerValues] : D \in SUBSET keys}
OpListMappings ==
    {NoneArg} \cup
    {DictArg(d) : d \in DictsOver({<<"Conv1d", "BatchNorm1d">>, <<"Linear", "Linear">>})}
PatternMappings ==
    {NoneArg} \cup
    {DictArg(d) : d \in DictsOver({<<"BatchNorm1d", <<"Conv1d">>>>, <<"Linear", <<"Linear">>>>})}

NoCall == [op |-> "none"]
NoFusion == [op |-> "none"]

Init ==
    /\ DEFAULT_OP_LIST_TO_FUSER_METHOD = OpListTable
    /\ DEFAULT_PATTERN_TO_FUSER_METHOD = PatternTable
    /\ call = NoCall
    /\ fusion = NoFusion

\* A lookup, recorded: its arguments, the caller's dict after it, its outcome.
Record(op, key, arg, r) ==
    call' = [op |-> op, key |-> key, arg |-> arg, arg_after |-> r.mapping,
             out |-> r.ret]

GetFuserMethod ==
    \E op_list \in OpLists, mapping \in OpListMappings :
        LET r == get_fuser_method(op_list, mapping, DEFAULT_OP_LIST_TO_FUSER_METHOD)
        IN  /\ DEFAULT_OP_LIST_TO_FUSER_METHOD' = r.DEFAULT
            /\ Record("get_fuser_method", op_list, mapping, r)
            /\ UNCHANGED <<DEFAULT_PATTERN_TO_FUSER_METHOD, fusion>>

GetFuserMethodNew ==
    \E op_pattern \in Patterns, mapping \in PatternMappings :
        LET r == get_fuser_method_new(op_pattern, mapping, DEFAULT_PATTERN_TO_FUSER_METHOD)
        IN  /\ DEFAULT_PATTERN_TO_FUSER_METHOD' = r.DEFAULT
            /\ Record("get_fuser_method_new", op_pattern, mapping, r)
            /\ UNCHANGED <<DEFAULT_OP_LIST_TO_FUSER_METHOD, fusion>>

Next == GetFuserMethod \/ GetFuserMethodNew

Spec == Init /\ [][Next]_vars

(***************************************************************************)
(* Properties of the lookups (specification Spec).                         *)
(***************************************************************************)
\* The dict a caller passed, the empty dict for None.
Supplied(arg) == IF arg.none THEN dict ELSE arg.dict

\* C1: get_fuser_method looks op_list up in the default table merged with
\* the caller's mapping: a key of the caller's mapping resolves to the
\* caller's function, also when the default table has the key; a key of the
\* default table alone resolves to the default's function.
C1_OverrideMergedOverDefault ==
    call.op = "get_fuser_method" =>
        LET over == Supplied(call.arg)
        IN  /\ call.key \in DOMAIN over => call.out = Found(over[call.key])
            /\ (call.key \notin DOMAIN over /\ call.key \in DOMAIN OpListTable)
                   => call.out = Found(OpListTable[call.key])

\* C1 witness: a key of both the default table and the caller's mapping was
\* looked up and the caller's function came back.
C1_Witness ==
    /\ call.op = "get_fuser_method"
    /\ ~call.arg.none
    /\ call.key \in DOMAIN call.arg.dict \cap DOMAIN OpListTable
    /\ call.out.ok
    /\ call.out.fn.kind = "user"
    /\ call.out.fn # OpListTable[call.key]

\* The table get_fuser_method_new consults.
Consulted(arg) == IF arg.none THEN PatternTable ELSE arg.dict

\* C2: a pattern with no entry in the table the lookup consults always
\* raises an assertion failure; no lookup ever returns None.
C2_UnregisteredRaises ==
    /\ (/\ call.op = "get_fuser_method"
        /\ call.key \notin DOMAIN OpListTable \cup DOMAIN Supplied(call.arg))
           => call.out = NotFound
    /\ (/\ call.op = "get_fuser_method_new"
        /\ call.key \notin DOMAIN Consulted(call.arg))
           => call.out = NotFound
    /\ (call.op # "none" /\ call.out.ok) => call.out.fn # NoneValue

\* C2 witness: get_fuser_method_new raised on a pattern its table lacks.
C2_Witness ==
    /\ call.op = "get_fuser_method_new"
    /\ call.key \notin DOMAIN Consulted(call.arg)
    /\ ~call.out.ok
    /\ call.out.err = "AssertionError"

\* C3 as claimed: get_fuser_method_new merges the supplied mapping over the
\* default pattern table, so a pattern of the default table alone is resolved
\* to its default function when a mapping is supplied.
C3_Original_MergedLookup ==
    call.op = "get_fuser_method_new" =>
        LET over == Supplied(call.arg)
        IN  /\ call.key \in DOMAIN over => call.out = Found(over[call.key])
            /\ (call.key \notin DOMAIN over /\ call.key \in DOMAIN PatternTable)
                   => call.out = Found(PatternTable[call.key])

\* C3 amended: a supplied mapping replaces the default pattern table.  The
\* lookup consults the supplied mapping alone (the default table only when
\* the argument is None): a key of the consulted table resolves to its
\* function there, every other pattern raises, a pattern registered only in
\* the default table included.
C3_SuppliedMappingReplacesDefault ==
    call.op = "get_fuser_method_new" =>
        LET table == Consulted(call.arg)
        IN  call.out = IF call.key \in DOMAIN table
                       THEN Found(table[call.key])
                       ELSE NotFound

\* C3 witness: a mapping was supplied, the pattern is registered in the
\* default table and not in the mapping, and the lookup raised.
C3_Witness ==
    /\ call.op = "get_fuser_method_new"
    /\ ~call.arg.none
    /\ call.key \in DOMAIN PatternTable
    /\ call.key \notin DOMAIN call.arg.dict
    /\ call.out = NotFound

\* C7: lookups are pure.  In every state reached by any sequence of lookups
\* both default tables are as initialised, the caller's mapping is what it
\* was before the call, and the outcome of the call is the outcome the same
\* call has on the freshly initialised tables (so repeating it changes nothing).
C7_LookupsArePure ==
    /\ DEFAULT_OP_LIST_TO_FUSER_METHOD = OpListTable
    /\ DEFAULT_PATTERN_TO_FUSER_METHOD = PatternTable
    /\ call.op # "none" => call.arg_after = call.arg
    /\ call.op = "get_fuser_method" =>
           call.out = get_fuser_method(call.key, call.arg, OpListTable).ret
    /\ call.op = "get_fuser_method_new" =>
           call.out = get_fuser_method_new(call.key, call.arg, PatternTable).ret

\* C7 witness: a lookup with a caller's non-empty mapping returned a function.
C7_Witness ==
    /\ call.op = "get_fuser_method"
    /\ ~call.arg.none
    /\ DOMAIN call.arg.dict # {}
    /\ call.out.ok
    /\ call.arg_after = call.arg

(***************************************************************************)
(* Module instances.  channels is out_channels (= in_channels) of a        *)
(* convolution, out_features (= in_features) of a Linear, num_features of  *)
(* a batch norm, 0 for an activation; affine and track_running_stats are   *)
(* the batch norm's flags (TRUE for every other type).                     *)
(***************************************************************************)
Module(type, training, channels, affine, track_running_stats) ==
    [type |-> type, training |-> training, channels |-> channels,
     affine |-> affine, track_running_stats |-> track_running_stats]

ConvLikeModules ==
    {Module(t, tr, ch, TRUE, TRUE) :
        t \in ConvTypes \cup ConvTransposeTypes, tr \in BOOLEAN, ch \in 1..MaxChannels}
LinearModules ==
    {Module("Linear", tr, ch, TRUE, TRUE) : tr \in BOOLEAN, ch \in 1..MaxChannels}
BatchNormModules ==
    {Module(t, tr, ch, af, st) :
        t \in BatchNormTypes, tr \in BOOLEAN, ch \in 1..MaxChannels,
        af \in BOOLEAN, st \in BOOLEAN}
ActivationModules ==
    {Module(t, tr, 0, TRUE, TRUE) : t \in ActivationTypes, tr \in BOOLEAN}
AllModules ==
    ConvLikeModules \cup LinearModules \cup BatchNormModules \cup ActivationModules

(***************************************************************************)
(* Outcomes of a fusion call: the module returned (its class, whether the  *)
(* batch norm's statistics were folded into the weights, the input modules *)
(* it is built from) or the exception raised.                              *)
(***************************************************************************)
Ret(type, folded, parts) ==
    [ok |-> TRUE, err |-> "", type |-> type, folded |-> folded, parts |-> parts]
Raise(err) ==
    [ok |-> FALSE, err |-> err, type |-> "", folded |-> FALSE, parts |-> <<>>]

(***************************************************************************)
(* The framework's side of the calls (torch.nn.intrinsic and               *)
(* torch.nn.utils.fusion), as far as the fusion functions depend on it.    *)
(***************************************************************************)
\* The exact argument types each fused container class asserts.
FusedClassArgs ==
    [ConvReLU1d |-> <<"Conv1d", "ReLU">>,
     ConvReLU2d |-> <<"Conv2d", "ReLU">>,
     ConvReLU3d |-> <<"Conv3d", "ReLU">>,
     LinearReLU |-> <<"Linear", "ReLU">>,
     BNReLU2d |-> <<"BatchNorm2d", "ReLU">>,
     BNReLU3d |-> <<"BatchNorm3d", "ReLU">>,
     ConvBn1d |-> <<"Conv1d", "BatchNorm1d">>,
     ConvBn2d |-> <<"Conv2d", "BatchNorm2d">>,
     ConvBn3d |-> <<"Conv3d", "BatchNorm3d">>,
     ConvBnReLU1d |-> <<"Conv1d", "BatchNorm1d", "ReLU">>,
     ConvBnReLU2d |-> <<"Conv2d", "BatchNorm2d", "ReLU">>,
     ConvBnReLU3d |-> <<"Conv3d", "BatchNorm3d", "ReLU">>]

\* nni.<cls>(*args): the container's __init__ asserts the exact types of its
\* arguments and wraps them.  arg_types are the types of the arguments,
\* parts the input modules the arguments come from.
nni(cls, arg_types, folded, parts) ==
    IF arg_types = FusedClassArgs[cls]
    THEN Ret(cls, folded, parts)
    ELSE Raise("AssertionError")

\* Two tensor dimensions broadcast.
Broadcastable(a, b) == a = b \/ a = 1 \/ b = 1

\* nn.utils.fuse_conv_bn_eval(conv, bn, transpose): eval mode only; folds the
\* running statistics (None without track_running_stats) into a copy of conv.
fuse_conv_bn_eval(conv, bn, transpose) ==
    IF conv.training \/ bn.training THEN Raise("AssertionError")
    ELSE IF ~bn.track_running_stats THEN Raise("TypeError")
    ELSE IF ~Broadcastable(conv.channels, bn.channels) THEN Raise("RuntimeError")
    ELSE Ret(conv.type, TRUE, <<conv, bn>>)

\* nn.utils.fusion.fuse_linear_bn_eval(linear, bn): as above; it also
\* multiplies by bn.weight, which is None without affine.
fuse_linear_bn_eval(linear, bn) ==
    IF linear.training \/ bn.training THEN Raise("AssertionError")
    ELSE IF ~bn.track_running_stats \/ ~bn.affine THEN Raise("TypeError")
    ELSE IF ~Broadcastable(linear.channels, bn.channels) THEN Raise("RuntimeError")
    ELSE Ret(linear.type, TRUE, <<linear, bn>>)

(***************************************************************************)
(* The fusion functions.                                                   *)
(***************************************************************************)
\* Variant: quantization-aware fusion does not assert conv.training.
fuse_conv_bn_no_training_assert(is_qat, conv, bn) ==
    LET fused_module_class_map ==
            [Conv1d |-> "ConvBn1d", Conv2d |-> "ConvBn2d", Conv3d |-> "ConvBn3d"]
    IN  IF conv.training # bn.training THEN Raise("AssertionError")
        ELSE IF is_qat THEN
            IF bn.channels # conv.channels THEN Raise("AssertionError")
            ELSE IF ~bn.affine THEN Raise("AssertionError")
            ELSE IF ~bn.track_running_stats THEN Raise("AssertionError")
            ELSE IF conv.type \in DOMAIN fused_module_class_map
                 THEN nni(fused_module_class_map[conv.type],
                          <<conv.type, bn.type>>, FALSE, <<conv, bn>>)
                 ELSE Raise("NotImplementedError")
        ELSE fuse_conv_bn_eval(conv, bn, FALSE)

\* Variant: quantization-aware fusion does not assert bn.affine.
fuse_conv_bn_no_affine_assert(is_qat, conv, bn) ==
    LET fused_module_class_map ==
            [Conv1d |-> "ConvBn1d", Conv2d |-> "ConvBn2d", Conv3d |-> "ConvBn3d"]
    IN  IF conv.training # bn.training THEN Raise("AssertionError")
        ELSE IF is_qat THEN
            IF ~conv.training THEN Raise("AssertionError")
            ELSE IF bn.channels # conv.channels THEN Raise("AssertionError")
            ELSE IF ~bn.track_running_stats THEN Raise("AssertionError")
            ELSE IF conv.type \in DOMAIN fused_module_class_map
                 THEN nni(fused_module_class_map[conv.type],
                          <<conv.type, bn.type>>, FALSE, <<conv, bn>>)
                 ELSE Raise("NotImplementedError")
        ELSE fuse_conv_bn_eval(conv, bn, FALSE)

fuse_conv_bn(is_qat, conv, bn) ==
    LET fused_module_class_map ==
            [Conv1d |-> "ConvBn1d", Conv2d |-> "ConvBn2d", Conv3d |-> "ConvBn3d"]
    IN  IF conv.training # bn.training THEN Raise("AssertionError")
        ELSE IF is_qat THEN
            IF ~conv.training THEN Raise("AssertionError")
            ELSE IF bn.channels # conv.channels THEN Raise("AssertionError")
            ELSE IF ~bn.affine THEN Raise("AssertionError")
            ELSE IF ~bn.track_running_stats THEN Raise("AssertionError")
            ELSE IF conv.type \in DOMAIN fused_module_class_map
                 THEN nni(fused_module_class_map[conv.type],
                          <<conv.type, bn.type>>, FALSE, <<conv, bn>>)
                 ELSE Raise("NotImplementedError")
        ELSE fuse_conv_bn_eval(conv, bn, FALSE)

\* Variant: the first assertion compares conv and bn only.
fuse_conv_bn_relu_no_relu_flag(is_qat, conv, bn, relu) ==
    LET map_to_fused_module_train ==
            [Conv1d |-> "ConvBnReLU1d", Conv2d |-> "ConvBnReLU2d", Conv3d |-> "ConvBnReLU3d"]
        map_to_fused_module_eval ==
            [Conv1d |-> "ConvReLU1d", Conv2d |-> "ConvReLU2d", Conv3d |-> "ConvReLU3d"]
    IN  IF ~(conv.training = bn.training)
        THEN Raise("AssertionError")
        ELSE IF is_qat THEN
            IF ~conv.training THEN Raise("AssertionError")
            ELSE IF bn.channels # conv.channels THEN Raise("AssertionError")
            ELSE IF ~bn.affine THEN Raise("AssertionError")
            ELSE IF ~bn.track_running_stats THEN Raise("AssertionError")
            ELSE IF conv.type \in DOMAIN map_to_fused_module_train
                 THEN nni(map_to_fused_module_train[conv.type],
                          <<conv.type, bn.type, relu.type>>, FALSE, <<conv, bn, relu>>)
                 ELSE Raise("NotImplementedError")
        ELSE IF conv.type \in DOMAIN map_to_fused_module_eval
             THEN LET fused_conv == fuse_conv_bn_eval(conv, bn, FALSE)
                  IN  IF ~fused_conv.ok THEN fused_conv
                      ELSE nni(map_to_fused_module_eval[conv.type],
                               <<fused_conv.type, relu.type>>, TRUE, <<conv, bn, relu>>)
             ELSE Raise("NotImplementedError")

fuse_conv_bn_relu(is_qat, conv, bn, relu) ==
    LET map_to_fused_module_train ==
            [Conv1d |-> "ConvBnReLU1d", Conv2d |-> "ConvBnReLU2d", Conv3d |-> "ConvBnReLU3d"]
        map_to_fused_module_eval ==
            [Conv1d |-> "ConvReLU1d", Conv2d |-> "ConvReLU2d", Conv3d |-> "ConvReLU3d"]
    IN  IF ~(conv.training = bn.training /\ bn.training = relu.training)
        THEN Raise("AssertionError")
        ELSE IF is_qat THEN
            IF ~conv.training THEN Raise("AssertionError")
            ELSE IF bn.channels # conv.channels THEN Raise("AssertionError")
            ELSE IF ~bn.affine THEN Raise("AssertionError")
            ELSE IF ~bn.track_running_stats THEN Raise("AssertionError")
            ELSE IF conv.type \in DOMAIN map_to_fused_module_train
                 THEN nni(map_to_fused_module_train[conv.type],
                          <<conv.type, bn.type, relu.type>>, FALSE, <<conv, bn, relu>>)
                 ELSE Raise("NotImplementedError")
        ELSE IF conv.type \in DOMAIN map_to_fused_module_eval
             THEN LET fused_conv == fuse_conv_bn_eval(conv, bn, FALSE)
                  IN  IF ~fused_conv.ok THEN fused_conv
                      ELSE nni(map_to_fused_module_eval[conv.type],
                               <<fused_conv.type, relu.type>>, TRUE, <<conv, bn, relu>>)
             ELSE Raise("NotImplementedError")

\* Variant: quantization-aware fusion of modules in eval mode falls through
\* to the eval fusion.
fuse_linear_bn_qat_falls_through(is_qat, linear, bn) ==
    IF linear.training # bn.training THEN Raise("AssertionError")
    ELSE IF is_qat /\ linear.training THEN Raise("Exception")
    ELSE fuse_linear_bn_eval(linear, bn)

fuse_linear_bn(is_qat, linear, bn) ==
    IF linear.training # bn.training THEN Raise("AssertionError")
    ELSE IF is_qat THEN
        IF ~linear.training THEN Raise("AssertionError")
        ELSE Raise("Exception")
    ELSE fuse_linear_bn_eval(linear, bn)

fuse_convtranspose_bn(is_qat, convt, bn) ==
    IF convt.training # bn.training THEN Raise("AssertionError")
    ELSE IF is_qat THEN
        IF ~convt.training THEN Raise("AssertionError")
        ELSE Raise("Exception")
    ELSE fuse_conv_bn_eval(convt, bn, TRUE)

\* sequential_wrapper2(sequential)(is_qat, m1, m2)
sequential_wrapper2(sequential, is_qat, m1, m2) ==
    nni(sequential, <<m1.type, m2.type>>, FALSE, <<m1, m2>>)

\* Variant: the two modules are not swapped.
reverse_sequential_wrapper2_not_swapped(sequential, is_qat, m1, m2) ==
    nni(sequential, <<m1.type, m2.type>>, FALSE, <<m1, m2>>)

\* reverse_sequential_wrapper2(sequential)(is_qat, m1, m2)
reverse_sequential_wrapper2(sequential, is_qat, m1, m2) ==
    nni(sequential, <<m2.type, m1.type>>, FALSE, <<m2, m1>>)

\* f(is_qat, a, b) for a two-module function the list table registers.
Call2(f, is_qat, a, b) ==
    CASE f.kind = "fuse_conv_bn" -> fuse_conv_bn(is_qat, a, b)
      [] f.kind = "fuse_linear_bn" -> fuse_linear_bn(is_qat, a, b)
      [] f.kind = "fuse_convtranspose_bn" -> fuse_convtranspose_bn(is_qat, a, b)
      [] f.kind = "sequential_wrapper2" -> sequential_wrapper2(f.arg, is_qat, a, b)

\* f(is_qat, a, b, c) for a three-module function the list table registers.
Call3(f, is_qat, a, b, c) ==
    CASE f.kind = "fuse_conv_bn_relu" -> fuse_conv_bn_relu(is_qat, a, b, c)

\* reverse2(f)(is_qat, x, y)
reverse2(f, is_qat, x, y) == Call2(f, is_qat, y, x)

\* Variant: the pair is unpacked in the other order.
reverse3_pair_not_reversed(f, is_qat, x, w) ==
    LET y == w[1]
        z == w[2]
    IN  Call3(f, is_qat, y, z, x)

\* reverse3(f)(is_qat, x, w)
reverse3(f, is_qat, x, w) ==
    LET y == w[1]
        z == w[2]
    IN  Call3(f, is_qat, z, y, x)

\* A call of a registered function value on the modules args, in the order
\* the caller passes them: f(is_qat, args[1], args[2]), f(is_qat, args[1],
\* args[2], args[3]), or for reverse3 f(is_qat, args[1], (args[2], args[3])).
Call(f, is_qat, args) ==
    CASE f.kind = "reverse2" -> reverse2(Fn(f.arg, "-"), is_qat, args[1], args[2])
      [] f.kind = "reverse3" -> reverse3(Fn(f.arg, "-"), is_qat, args[1], <<args[2], args[3]>>)
      [] f.kind = "reverse_sequential_wrapper2" ->
            reverse_sequential_wrapper2(f.arg, is_qat, args[1], args[2])
      [] f.kind = "fuse_conv_bn_relu" -> Call3(f, is_qat, args[1], args[2], args[3])
      [] OTHER -> Call2(f, is_qat, args[1], args[2])

(***************************************************************************)
(* The inputs of the fusion calls: modules of the documented kinds in the  *)
(* documented argument order (conv, bn[, relu]); any two modules for the   *)
(* wrappers.                                                               *)
(***************************************************************************)
Reverse(s) == [i \in 1..Len(s) |-> s[Len(s) + 1 - i]]

\* The arguments in list order (a, b[, c]) for the function named name.
ListArgs(name) ==
    CASE name = "fuse_conv_bn" ->
            {<<c, b>> : c \in ConvLikeModules, b \in BatchNormModules}
      [] name = "fuse_convtranspose_bn" ->
            {<<c, b>> : c \in ConvLikeModules, b \in BatchNormModules}
      [] name = "fuse_linear_bn" ->
            {<<l, b>> : l \in LinearModules, b \in BatchNormModules}
      [] name = "fuse_conv_bn_relu" ->
            {<<c, b, r>> : c \in ConvLikeModules, b \in BatchNormModules,
                           r \in ActivationModules}
      [] OTHER -> AllModules \X AllModules

\* The arguments a caller passes to the function value f.
ArgsOf(f) ==
    CASE f.kind \in {"reverse2", "reverse3"} -> {Reverse(a) : a \in ListArgs(f.arg)}
      [] f.kind = "reverse_sequential_wrapper2" -> AllModules \X AllModules
      [] OTHER -> ListArgs(f.kind)

\* A call of the function table registers under key: is_qat, modules.
Request(table, name) ==
    \E key \in DOMAIN table, is_qat \in BOOLEAN :
        \E args \in ArgsOf(table[key]) :
            fusion = [op |-> "pending", table |-> name, key |-> key,
                      is_qat |-> is_qat, args |-> args]

\* A caller holds the modules of a matched pattern and is about to fuse them.
InitFuse ==
    /\ DEFAULT_OP_LIST_TO_FUSER_METHOD = OpListTable
    /\ DEFAULT_PATTERN_TO_FUSER_METHOD = PatternTable
    /\ call = NoCall
    /\ Request(OpListTable, "op_list") \/ Request(PatternTable, "pattern")

\* The pending call is made on the function the table holds under its key.
Invoke(table) ==
    fusion' = [op |-> "fuse", table |-> fusion.table, key |-> fusion.key,
               is_qat |-> fusion.is_qat, args |-> fusion.args,
               fn |-> table[fusion.key],
               out |-> Call(table[fusion.key], fusion.is_qat, fusion.args)]

\* A function of the list table is called.
InvokeOpList ==
    /\ fusion.op = "pending"
    /\ fusion.table = "op_list"
    /\ Invoke(DEFAULT_OP_LIST_TO_FUSER_METHOD)
    /\ UNCHANGED <<DEFAULT_OP_LIST_TO_FUSER_METHOD, DEFAULT_PATTERN_TO_FUSER_METHOD, call>>

\* A function of the nested-pattern table is called.
InvokePattern ==
    /\ fusion.op = "pending"
    /\ fusion.table = "pattern"
    /\ Invoke(DEFAULT_PATTERN_TO_FUSER_METHOD)
    /\ UNCHANGED <<DEFAULT_OP_LIST_TO_FUSER_METHOD, DEFAULT_PATTERN_TO_FUSER_METHOD, call>>

NextFuse == InvokeOpList \/ InvokePattern

SpecFuse == InitFuse /\ [][NextFuse]_vars

(***************************************************************************)
(* Properties of the fusion functions (specification SpecFuse).            *)
(***************************************************************************)
Fused == fusion.op = "fuse"
\* The modules in list order: (conv, bn[, relu]), (m1, m2).
Canon == IF fusion.table = "pattern" THEN Reverse(fusion.args) ELSE fusion.args
\* The def behind the function value: reverse2(f) and reverse3(f) call f.
BaseName(f) == IF f.kind \in {"reverse2", "reverse3"} THEN f.arg ELSE f.kind
IsWrapper(f) == f.kind \in {"sequential_wrapper2", "reverse_sequential_wrapper2"}
TypesOf(mods) == [i \in 1..Len(mods) |-> mods[i].type]
\* The key's types in list order.
KeyTypes ==
    IF fusion.table = "pattern"
    THEN Reverse(<<fusion.key[1]>> \o fusion.key[2])
    ELSE fusion.key
CorrectlyTyped == TypesOf(Canon) = KeyTypes
FlagsEqual ==
    \A i, j \in 1..Len(fusion.args) : fusion.args[i].training = fusion.args[j].training
\* The batch norm fits the layer it is fused into.
BatchNormFits ==
    IsWrapper(fusion.fn) \/
        /\ Canon[2].channels = Canon[1].channels
        /\ Canon[2].affine
        /\ Canon[2].track_running_stats

\* C4 as claimed: every registered function, the sequential wrappers and
\* their reversed variants included, raises on modules whose training flags
\* are not all equal.
C4_Original_AnyMismatchRaises ==
    (Fused /\ ~FlagsEqual) => ~fusion.out.ok

\* C4 amended: fuse_conv_bn, fuse_conv_bn_relu, fuse_linear_bn,
\* fuse_convtranspose_bn and their reverse2/reverse3 variants raise an
\* assertion failure on modules whose training flags are not all equal, for
\* both values of is_qat; the sequential wrappers and their reversed variants
\* do not look at the flags and return the container whenever its class
\* accepts the modules' types.
C4_FuseFunctionsRaiseOnMismatch ==
    (Fused /\ ~FlagsEqual) =>
        IF IsWrapper(fusion.fn)
        THEN fusion.out.ok = (TypesOf(Canon) = FusedClassArgs[fusion.fn.arg])
        ELSE fusion.out = Raise("AssertionError")

\* C4 witness: fuse_conv_bn_relu was called with conv and bn in one mode and
\* relu in the other, and raised.
C4_Witness ==
    /\ Fused
    /\ BaseName(fusion.fn) = "fuse_conv_bn_relu"
    /\ Canon[1].training = Canon[2].training
    /\ Canon[3].training # Canon[1].training
    /\ ~fusion.is_qat
    /\ fusion.out = Raise("AssertionError")

\* C5 as claimed: every registered function, called on modules of its key's
\* types with equal training flags (and a batch norm that fits), returns a
\* fused module for every value of is_qat and of the shared flag.
C5_Original_AlwaysReturns ==
    (Fused /\ CorrectlyTyped /\ FlagsEqual /\ BatchNormFits) => fusion.out.ok

\* C5 amended: on modules of its key's types with equal training flags and
\* a batch norm that fits (affine, tracking running statistics, num_features
\* equal to the layer's output channels), a registered function returns a
\* single fused module exactly when it is a sequential wrapper, or a
\* conv-bn / conv-bn-relu entry called with is_qat equal to the shared
\* training flag, or a linear-bn / convtranspose-bn entry called with is_qat
\* false on modules in eval mode; in every other combination it raises.
C5_ReturnsWhenModeMatches ==
    (Fused /\ CorrectlyTyped /\ FlagsEqual /\ BatchNormFits) =>
        (fusion.out.ok <=>
            \/ IsWrapper(fusion.fn)
            \/ /\ BaseName(fusion.fn) \in {"fuse_conv_bn", "fuse_conv_bn_relu"}
               /\ fusion.is_qat = Canon[1].training
            \/ /\ BaseName(fusion.fn) \in {"fuse_linear_bn", "fuse_convtranspose_bn"}
               /\ ~fusion.is_qat
               /\ ~Canon[1].training)

\* C5 witness: the (Conv2d, BatchNorm2d, ReLU) entry fused three eval-mode
\* modules into a ConvReLU2d.
C5_Witness ==
    /\ Fused
    /\ fusion.table = "op_list"
    /\ fusion.key = <<"Conv2d", "BatchNorm2d", "ReLU">>
    /\ CorrectlyTyped /\ FlagsEqual /\ BatchNormFits
    /\ ~fusion.is_qat
    /\ ~Canon[1].training
    /\ fusion.out.ok
    /\ fusion.out.type = "ConvReLU2d"

\* C6: fuse_linear_bn and fuse_convtranspose_bn raise whenever is_qat is
\* true, whatever the two training flags are.
C6_QatLinearAndConvTransposeRaise ==
    (/\ Fused
     /\ BaseName(fusion.fn) \in {"fuse_linear_bn", "fuse_convtranspose_bn"}
     /\ fusion.is_qat)
        => ~fusion.out.ok

\* C6 witness: fuse_linear_bn was called with is_qat on two modules in eval
\* mode and raised.
C6_Witness ==
    /\ Fused
    /\ fusion.fn.kind = "fuse_linear_bn"
    /\ fusion.is_qat
    /\ ~Canon[1].training
    /\ ~Canon[2].training
    /\ ~fusion.out.ok

\* What the container class S makes of the modules a and b.
Container(S, a, b) ==
    IF <<a.type, b.type>> = FusedClassArgs[S]
    THEN Ret(S, FALSE, <<a, b>>)
    ELSE Raise("AssertionError")

\* C8: the function sequential_wrapper2(S) returns is S(m1, m2) whatever
\* is_qat and the modules' flags are; the function
\* reverse_sequential_wrapper2(S) returns is S(m2, m1), the result of
\* sequential_wrapper2(S) on the swapped modules, whatever is_qat is.
C8_WrappersIgnoreFlag ==
    Fused =>
        LET m1 == fusion.args[1]
            m2 == fusion.args[2]
            S == fusion.fn.arg
        IN  /\ fusion.fn.kind = "sequential_wrapper2" =>
                /\ fusion.out = Container(S, m1, m2)
                /\ fusion.out = Call(fusion.fn, ~fusion.is_qat, fusion.args)
            /\ fusion.fn.kind = "reverse_sequential_wrapper2" =>
                /\ fusion.out = Container(S, m2, m1)
                /\ fusion.out = Call(fusion.fn, ~fusion.is_qat, fusion.args)
                /\ fusion.out = sequential_wrapper2(S, fusion.is_qat, m2, m1)

\* C8 witness: a reversed wrapper was called with is_qat true as
\* g(is_qat, relu, conv) on modules in different modes and returned the
\* container of (conv, relu).
C8_Witness ==
    /\ Fused
    /\ fusion.fn.kind = "reverse_sequential_wrapper2"
    /\ fusion.is_qat
    /\ fusion.args[1].training # fusion.args[2].training
    /\ fusion.out.ok
    /\ fusion.out.parts = <<fusion.args[2], fusion.args[1]>>

\* The nested pattern of an op list, and back.
Mirror(op_list) ==
    IF Len(op_list) = 2
    THEN <<op_list[2], <<op_list[1]>>>>
    ELSE <<op_list[3], <<op_list[2], op_list[1]>>>>
Unmirror(op_pattern) == Reverse(<<op_pattern[1]>> \o op_pattern[2])

\* C9: the nested-pattern table is the reversed image of the list table:
\* (A, B) is a key of the list table iff (B, A) is a key of the pattern
\* table, (A, B, C) iff (C, (B, A)); and the pattern-table function called
\* on the reversed modules has the outcome of the list-table function.
C9_PatternTableMirrorsListTable ==
    /\ {Mirror(k) : k \in DOMAIN DEFAULT_OP_LIST_TO_FUSER_METHOD}
           = DOMAIN DEFAULT_PATTERN_TO_FUSER_METHOD
    /\ {Unmirror(k) : k \in DOMAIN DEFAULT_PATTERN_TO_FUSER_METHOD}
           = DOMAIN DEFAULT_OP_LIST_TO_FUSER_METHOD
    /\ (Fused /\ fusion.table = "op_list") =>
           fusion.out = Call(DEFAULT_PATTERN_TO_FUSER_METHOD[Mirror(fusion.key)],
                             fusion.is_qat, Reverse(fusion.args))
    /\ (Fused /\ fusion.table = "pattern") =>
           fusion.out = Call(DEFAULT_OP_LIST_TO_FUSER_METHOD[Unmirror(fusion.key)],
                             fusion.is_qat, Reverse(fusion.args))

\* C9 witness: the (ReLU, (BatchNorm2d, Conv2d)) entry was called as
\* g(is_qat, relu, (bn, conv)) and returned a fused module.
C9_Witness ==
    /\ Fused
    /\ fusion.table = "pattern"
    /\ fusion.key = <<"ReLU", <<"BatchNorm2d", "Conv2d">>>>
    /\ fusion.args[1].type = "ReLU"
    /\ fusion.args[3].type = "Conv2d"
    /\ fusion.out.ok

\* What the claim of C10 lists: flags equal and true, the batch norm fits,
\* the conv is exactly a Conv1d, Conv2d or Conv3d.
QatListed ==
    /\ FlagsEqual
    /\ Canon[1].training
    /\ Canon[2].channels = Canon[1].channels
    /\ Canon[2].affine
    /\ Canon[2].track_running_stats
    /\ Canon[1].type \in ConvTypes
\* The classes of the conv's dimensionality.
BatchNormOf == [Conv1d |-> "BatchNorm1d", Conv2d |-> "BatchNorm2d", Conv3d |-> "BatchNorm3d"]
ConvBnOf == [Conv1d |-> "ConvBn1d", Conv2d |-> "ConvBn2d", Conv3d |-> "ConvBn3d"]
ConvBnReLUOf ==
    [Conv1d |-> "ConvBnReLU1d", Conv2d |-> "ConvBnReLU2d", Conv3d |-> "ConvBnReLU3d"]
QatCall ==
    /\ Fused
    /\ BaseName(fusion.fn) \in {"fuse_conv_bn", "fuse_conv_bn_relu"}
    /\ fusion.is_qat
\* The asserted conditions hold and the conv's type alone is unsupported.
QatUnsupportedConv ==
    /\ FlagsEqual
    /\ Canon[1].training
    /\ Canon[2].channels = Canon[1].channels
    /\ Canon[2].affine
    /\ Canon[2].track_running_stats
    /\ Canon[1].type \notin ConvTypes
QatClass ==
    IF Len(Canon) = 3 THEN ConvBnReLUOf[Canon[1].type] ELSE ConvBnOf[Canon[1].type]

\* C10 as claimed: with is_qat true, fuse_conv_bn and fuse_conv_bn_relu
\* return a fused module iff the listed conditions hold.
C10_Original_ReturnsIffListed ==
    QatCall => (fusion.out.ok <=> QatListed)

\* C10 amended: with is_qat true, fuse_conv_bn and fuse_conv_bn_relu return
\* a fused module iff the listed conditions hold and, in addition, the batch
\* norm's exact type is the BatchNormNd of the conv's dimensionality and the
\* relu's exact type is ReLU; otherwise they raise (NotImplementedError when
\* only the conv's type is unsupported, an assertion failure in every other
\* case); the module returned is the ConvBnNd / ConvBnReLUNd of the conv's
\* dimensionality, wrapping the input modules.
C10_QatReturnsIffListedAndTyped ==
    QatCall =>
        LET typed == /\ Canon[2].type = BatchNormOf[Canon[1].type]
                     /\ Len(Canon) = 3 => Canon[3].type = "ReLU"
        IN  /\ fusion.out.ok <=> (QatListed /\ typed)
            /\ fusion.out.ok => fusion.out = Ret(QatClass, FALSE, Canon)
            /\ ~fusion.out.ok =>
                   fusion.out.err = IF QatUnsupportedConv
                                    THEN "NotImplementedError"
                                    ELSE "AssertionError"

\* C10 witness: fuse_conv_bn_relu fused a training-mode Conv2d, BatchNorm2d
\* and ReLU into a ConvBnReLU2d.
C10_Witness ==
    /\ QatCall
    /\ QatListed
    /\ Len(Canon) = 3
    /\ Canon[1].type = "Conv2d"
    /\ fusion.out.ok
    /\ fusion.out.type = "ConvBnReLU2d"

====
